---- MODULE Spec2Model ----
(***************************************************************************)
(* Model of the relational bone (bones/relationalBone.py): the lock lists  *)
(* kept by serialize, the viur-relations index kept by postSavedHandler    *)
(* and postDeletedHandler, the query rewriting of buildDBFilter,           *)
(* buildDBSort and their hooks, the reading of request data by fromClient, *)
(* the codec of serialize and unserialize, the refresh of the copies, and  *)
(* the delete path of the tree prototype (prototypes/uniformtree.py).      *)
(*                                                                         *)
(* One bone named "bone" of one referencing kind "src" points to entities  *)
(* of one referenced kind "dst".  RefSkel, the skeleton and the datastore  *)
(* driver (viur.core.skeleton, viur.core.db) are not part of the sources;  *)
(* the key bone is read as being written both as the entity key and as the *)
(* property "key", the one reading under which refData["key"] (line 219),  *)
(* dbObj["dest"].key (line 303) and the filter "src.key =" (line 366) all  *)
(* address the same value.                                                 *)
(***************************************************************************)
EXTENDS Integers, Sequences, FiniteSets, TLC

\* ------------------------------------------------------------------ bounds
MaxVals == 2
MaxRuns == 2
MaxForeign == 1
MaxRaw == 1
MaxData == 2
MaxFilters == 4

Srcs == {"e1", "e2"}
OtherSrcs == {"o1"}
Procs == {1, 2}
Dests == {"t1", "t2"}
DestNames == {"a", "b"}
SrcNames == {"p", "q"}
Rels == {"x", "y"}

\* ------------------------------------------------------- program constants
NoneVal == "None"
Ignore == "Ignore"
PreventDeletion == "PreventDeletion"
SetNull == "SetNull"
CascadeDeletion == "CascadeDeletion"
RelationalConsistency == {Ignore, PreventDeletion, SetNull, CascadeDeletion}
boneName == "bone"
srcKind == "src"
destKind == "dst"

VARIABLES
    cfg,         \* the bone's declaration: multiple, using, consistency
    srcStore,    \* datastore, referencing kind: name -> entity
    dstStore,    \* datastore, referenced kind: key -> entity
    rows,        \* datastore, collection viur-relations
    nextRowKey,  \* next id the datastore hands to a new viur-relations row
    pc,          \* position of the one request being served
    cur,         \* name of the referencing entity being saved
    skel,        \* the skeleton in memory: the bone's value and the name field
    txnEntity,   \* skeletonValues.entity, the entity being written
    txnPuts,     \* db.Put of referenced entities buffered by the transaction
    toLock,      \* newRelationalLocks - oldRelationalLocks still to visit
    toUnlock,    \* oldRelationalLocks - newRelationalLocks still to visit
    psQueue,     \* rows of dbVals.iter() still to visit
    psValues,    \* the working list "values" of postSavedHandler
    psStart,     \* rows as they were when the handler was first started
    psRetried,   \* the handler was interrupted and re-run
    psRuns,      \* number of saves whose handler has been started
    query,       \* the db.Query a list request is building
    fcData,      \* the data of the edit request being read
    fcRes,       \* what the last fromClient returned
    entity,      \* skeletonValues.entity with all its properties, by name
    dbEntity,    \* the same entity as the datastore holds it
    relTasks,    \* deferred tasks queued to update the references to a
                 \* saved entity, one for each referencing entity
    savers,      \* requests that save at the same time, each in its own
                 \* transaction: position, entity, reads and buffered puts
    qres         \* how the last call on the query ended: the error it
                 \* raised, the call and its argument, or nothing raised

vars == <<cfg, srcStore, dstStore, rows, nextRowKey, pc, cur, skel, txnEntity,
          txnPuts, toLock, toUnlock, psQueue, psValues, psStart, psRetried,
          psRuns, query, qres, fcData, fcRes, entity, dbEntity, relTasks, savers>>

storeVars == <<srcStore, dstStore>>
txnVars == <<txnEntity, txnPuts, toLock, toUnlock>>
psVars == <<psQueue, psValues, psStart, psRetried, psRuns>>
codecVars == <<entity, dbEntity>>
taskVars == <<relTasks, savers>>
qVars == <<query, qres, fcData, fcRes, codecVars, taskVars>>

\* ------------------------------------------------------------------ values
Range(s) == {s[i] : i \in 1..Len(s)}

\* A RelationValue in memory: dest holds the refKeys ("key", "name").
Entry(k, n, r) == [dest |-> [key |-> k, name |-> n], rel |-> r]

\* Python's None, a dict or a list of dicts.
NullValue == [kind |-> "null", items |-> <<>>]
SingleValue(x) == [kind |-> "single", items |-> <<x>>]
ListValue(s) == [kind |-> "list", items |-> s]

\* "not v" of Python: None and the empty list are falsy.
Falsy(v) == Len(v.items) = 0

SeqsUpTo(S, n) == UNION {[1..m -> S] : m \in 0..n}

\* The values a bone of this declaration can hold after fromClient or
\* setBoneValue: a list for a multiple bone, a dict or None otherwise; rel is
\* None unless the bone declares an edge schema.
BoneValues(multiple, using, names, rels) ==
    LET es == {Entry(k, n, r) : k \in Dests, n \in names,
                                r \in IF using THEN rels ELSE {NoneVal}}
    IN IF multiple
       THEN {ListValue(s) : s \in SeqsUpTo(es, MaxVals)}
       ELSE {NullValue} \cup {SingleValue(x) : x \in es}

NoEntity == [live |-> FALSE, name |-> NoneVal, val |-> NullValue, locks |-> {}]
NoDest == [live |-> FALSE, name |-> NoneVal, incoming |-> <<>>]
NoSkel == [val |-> NullValue, name |-> NoneVal]

\* The mark of a lock list a transaction has not read or put: no list of
\* identities holds None.
Untouched == <<NoneVal>>

\* Nothing read and nothing put for any referenced entity.
NoAccess == [k \in Dests |-> Untouched]

IdleSaver ==
    [pc |-> "idle", entity |-> NoEntity, reads |-> NoAccess, puts |-> NoAccess,
     toLock |-> {}, toUnlock |-> {}]

\* A skeleton's values cache with nothing read into it, setValuesCache({});
\* it is falsy and it is not None.
EmptyValuesCache == "{}"

\* An entity without a property.
NoProperties == [k \in {} |-> NoneVal]

\* ------------------------------------------------------------- serialize
\* RefSkel.serialize: the denormalized copy, the refKeys only.
refSkelSerialize(dest) == [key |-> dest.key, name |-> dest.name]

\* usingSkel.serialize, or None without an edge schema or an edge value.
usingSkelSerialize(rel) ==
    IF cfg.using /\ rel \notin {NoneVal, EmptyValuesCache} THEN rel ELSE NoneVal

\* Lines 208-245: the structure written to entity[name].
serializedValue(v) ==
    IF Falsy(v) THEN NullValue
    ELSE [kind |-> v.kind,
          items |-> [i \in 1..Len(v.items) |->
                        [dest |-> refSkelSerialize(v.items[i].dest),
                         rel |-> usingSkelSerialize(v.items[i].rel)]]]

\* Lines 203, 219, 236: the keys collected while the value is written.
collectedLocks(v) == {v.items[i].dest.key : i \in 1..Len(v.items)}

newRelationalLocksBug(v) == collectedLocks(v)

\* Lines 257-259: only PreventDeletion keeps the collected keys.
newRelationalLocks(v) ==
    IF cfg.consistency # PreventDeletion THEN {} ELSE collectedLocks(v)

oldRelationalLocksBug(e) == {}

\* Line 202.
oldRelationalLocks(e) == IF srcStore[e].live THEN srcStore[e].locks ELSE {}

\* The datastore key of a referencing entity: the entities of Srcs are of
\* the referencing kind and named as they are written here; the one of
\* OtherSrcs is of a second kind with a bone of the same declaration, and
\* has the name of the first of Srcs.
entityKey(e) ==
    IF e \in OtherSrcs THEN [kind |-> "src2", name |-> "e1"]
    ELSE [kind |-> srcKind, name |-> e]

\* Line 268: the identity written to a lock list is entity.name, the name of
\* the key without its kind.
entityName(e) == entityKey(e).name

alreadyLockedBug(referencedObj, name) == FALSE

\* Line 268: the assertion fails when the identity is in the list.
alreadyLocked(referencedObj, name) == name \in Range(referencedObj.incoming)

appendLockBug(locks, name) == locks

\* Line 269.
appendLock(locks, name) == Append(locks, name)

RECURSIVE removeFirst(_, _)
removeFirst(s, x) ==
    IF s = <<>> THEN <<>>
    ELSE IF Head(s) = x THEN Tail(s)
    ELSE <<Head(s)>> \o removeFirst(Tail(s), x)

removeLockBug(locks, name) == locks

\* Line 277: list.remove drops the first occurrence.
removeLock(locks, name) == removeFirst(locks, name)

\* ------------------------------------------------------------ the query
\* A filter or sort name is a dotted path of field names, with the operator
\* (" =", " >") a filter name may end in: "bone.dest.name =" is
\* [path |-> <<"bone", "dest", "name">>, op |-> "="].
viurRelations == "viur-relations"
KEY_SPECIAL_PROPERTY == "__key__"

\* Lines 56-57.
refKeys == {"key", "name"}
parentKeys == {"key", "name"}

\* The bones of the edge schema, self.using().
usingBones == {"weight"}

Errors == {"RuntimeError", "NotImplementedError"}

Returned == [res |-> "ok", op |-> "", arg |-> <<>>]

\* skel.all(): a query on the referencing kind with nothing set.
FreshQuery ==
    [kind |-> srcKind, fkind |-> "dict", filters |-> {}, orders |-> <<>>,
     ancestor |-> NoneVal, hooks |-> FALSE]

FilterName(path, op) == [path |-> path, op |-> op]

\* str.startswith(prefix + "."): the name goes on after the prefix.
startsWith(path, prefix) == Len(path) > 1 /\ path[1] = prefix

\* str.startswith("viur_").
startsWithViur(path) ==
    path[1] \in {"viur_src_kind", "viur_dest_kind", "viur_src_property"}

\* "x in self.parentKeys" and "x in self.refKeys" for a dotted name.
inKeys(path, keys) == Len(path) = 1 /\ path[1] \in keys

raised(res, q) == [res |-> res, q |-> q]
returned(q) == [res |-> "ok", q |-> q]

\* Lines 708-752.  The result is the name to filter by, drop when the hook
\* returns None, and the ancestor the hook may have set on the query.
filterHook(q, param, value) ==
    LET pass(p) == [res |-> "ok", drop |-> FALSE, name |-> p,
                    ancestor |-> q.ancestor]
        fail == [res |-> "RuntimeError", drop |-> TRUE, name |-> param,
                 ancestor |-> q.ancestor]
    IN IF \/ startsWith(param.path, "src")
          \/ startsWith(param.path, "dest")
          \/ startsWithViur(param.path)
       THEN pass(param)
       ELSE IF startsWith(param.path, boneName)
       THEN LET refKey == Tail(param.path)
            IN IF ~inKeys(refKey, refKeys) THEN fail
               ELSE IF cfg.multiple
               THEN pass(FilterName(<<"dest">> \o refKey, param.op))
               ELSE pass(param)
       ELSE IF ~cfg.multiple THEN pass(param)
       ELSE LET srcKey == param.path
            IN IF srcKey = <<KEY_SPECIAL_PROPERTY>>
               THEN IF value = "list" THEN fail
                    ELSE [res |-> "ok", drop |-> TRUE, name |-> param,
                          ancestor |-> value]
               ELSE IF ~inKeys(srcKey, parentKeys) THEN fail
               ELSE pass(FilterName(<<"src">> \o param.path, param.op))

\* filters[name] = value of a dict.
setFilter(filters, name, value) ==
    {f \in filters : ~(f.path = name.path /\ f.op = name.op)}
        \cup {[path |-> name.path, op |-> name.op, val |-> value]}

\* Query.filter: the name goes through the filter hook when one is installed
\* and is then stored with its value.
queryFilter(q, param, value) ==
    IF ~q.hooks
    THEN returned([q EXCEPT !.filters = setFilter(q.filters, param, value)])
    ELSE LET h == filterHook(q, param, value)
         IN IF h.res # "ok" THEN raised(h.res, q)
            ELSE IF h.drop THEN returned([q EXCEPT !.ancestor = h.ancestor])
            ELSE returned([q EXCEPT !.filters = setFilter(q.filters, h.name, value)])

\* Lines 761-799 for one ordering.
orderHookOne(order) ==
    IF \/ startsWith(order, "dest")
       \/ startsWith(order, "rel")
       \/ startsWith(order, "src")
    THEN [res |-> "ok", order |-> order]
    ELSE IF startsWith(order, boneName)
    THEN LET k == Tail(order)
         IN IF ~inKeys(k, refKeys) THEN [res |-> "RuntimeError", order |-> order]
            ELSE IF ~cfg.multiple THEN [res |-> "ok", order |-> order]
            ELSE [res |-> "ok", order |-> <<"dest">> \o k]
    ELSE IF ~cfg.multiple THEN [res |-> "ok", order |-> order]
    ELSE IF ~inKeys(order, parentKeys)
    THEN [res |-> "RuntimeError", order |-> order]
    ELSE [res |-> "ok", order |-> <<"src">> \o order]

\* Lines 754-799.
orderHook(orderings) ==
    LET each == [i \in 1..Len(orderings) |-> orderHookOne(orderings[i])]
    IN IF \E i \in 1..Len(orderings) : each[i].res # "ok"
       THEN [res |-> "RuntimeError", orders |-> orderings]
       ELSE [res |-> "ok", orders |-> [i \in 1..Len(orderings) |-> each[i].order]]

\* Query.order: the orderings go through the order hook when one is
\* installed and then become the query's sort orders.
queryOrder(q, orderings) ==
    IF ~q.hooks THEN returned([q EXCEPT !.orders = orderings])
    ELSE LET h == orderHook(orderings)
         IN IF h.res # "ok" THEN raised(h.res, q)
            ELSE returned([q EXCEPT !.orders = h.orders])

\* Line 564: the filter's name is the key property, character for character.
isKeyFilter(f) == f.path = <<KEY_SPECIAL_PROPERTY>> /\ f.op = ""

srcFilterAllowedBug(f) == TRUE

\* Lines 575-576: k.split(".")[0] is looked up in parentKeys; the first part
\* of a name without a dot carries the operator the name ends in.
srcFilterAllowed(f) ==
    f.path[1] \in parentKeys /\ (Len(f.path) > 1 \/ f.op = "")

\* Lines 561-580: the old filters are merged in, one at a time.
RECURSIVE mergeOldFilters(_, _)
mergeOldFilters(q, origFilter) ==
    IF origFilter = {} THEN returned(q)
    ELSE LET f == CHOOSE x \in origFilter : TRUE
             rest == origFilter \ {f}
         IN IF isKeyFilter(f)
            THEN IF f.val = "list" THEN raised("RuntimeError", q)
                 ELSE mergeOldFilters([q EXCEPT !.ancestor = f.val], rest)
            ELSE IF ~srcFilterAllowed(f) THEN raised("RuntimeError", q)
            ELSE LET r == queryFilter(q, FilterName(<<"src">> \o f.path, f.op),
                                      f.val)
                 IN IF r.res # "ok" THEN r ELSE mergeOldFilters(r.q, rest)

\* Lines 581-589: the old sort orders, rewritten.
mergeOldOrders(origSortOrders) ==
    LET ok(k) == k = <<KEY_SPECIAL_PROPERTY>> \/ inKeys(k, parentKeys)
    IN IF \E i \in 1..Len(origSortOrders) : ~ok(origSortOrders[i])
       THEN [res |-> "RuntimeError", orderList |-> <<>>]
       ELSE [res |-> "ok",
             orderList |-> [i \in 1..Len(origSortOrders) |->
                               IF origSortOrders[i] = <<KEY_SPECIAL_PROPERTY>>
                               THEN origSortOrders[i]
                               ELSE <<"src">> \o origSortOrders[i]]]

\* Lines 555-557: the three filters every rewritten query starts with.
baselineFilters ==
    <<[name |-> FilterName(<<"viur_src_kind">>, "="), val |-> srcKind],
      [name |-> FilterName(<<"viur_dest_kind">>, "="), val |-> destKind],
      [name |-> FilterName(<<"viur_src_property">>, ""), val |-> boneName]>>

RECURSIVE addFilters(_, _)
addFilters(q, fs) ==
    IF fs = <<>> THEN returned(q)
    ELSE LET r == queryFilter(q, Head(fs).name, Head(fs).val)
         IN IF r.res # "ok" THEN r ELSE addFilters(r.q, Tail(fs))

rewriteQueryBug(q) == returned([q EXCEPT !.kind = viurRelations])

\* Lines 543-592.
rewriteQuery(q) ==
    IF q.fkind = "list" THEN raised("NotImplementedError", q)
    ELSE LET q1 == [q EXCEPT !.filters = {}, !.fkind = "dict",
                             !.kind = viurRelations]
             r1 == addFilters(q1, baselineFilters)
         IN IF r1.res # "ok" THEN r1
            ELSE LET r2 == mergeOldFilters(r1.q, q.filters)
                 IN IF r2.res # "ok" THEN r2
                    ELSE LET o == mergeOldOrders(q.orders)
                         IN IF o.res # "ok" THEN raised(o.res, r2.q)
                            ELSE IF o.orderList = <<>> THEN r2
                            ELSE queryOrder(r2.q, o.orderList)

\* bone.buildDBFilter of the referenced or the edge schema's bone (lines 647
\* to 650, 664 to 667): an equality filter on the prefixed name.
boneBuildDBFilter(q, path, value) == queryFilter(q, FilterName(path, "="), value)

\* Lines 610-667: the relational filters are merged in, one raw key at a time.
RECURSIVE mergeRelationalFilters(_, _)
mergeRelationalFilters(q, myKeys) ==
    IF myKeys = <<>> THEN returned(q)
    ELSE LET myKey == Head(myKeys)
             parsed == Len(myKey) >= 3 /\ myKey[2] \in {"dest", "rel"}
             type == IF parsed THEN myKey[2] ELSE "dest"
             key == IF parsed THEN SubSeq(myKey, 3, Len(myKey)) ELSE Tail(myKey)
             checkKey == key[1]
             prefix == IF cfg.multiple THEN <<type>> ELSE <<boneName, type>>
         IN IF ~parsed /\ cfg.using
            THEN mergeRelationalFilters(q, Tail(myKeys))
            ELSE IF type = "dest" /\ checkKey \notin refKeys
            THEN raised("RuntimeError", q)
            ELSE IF type = "rel" /\ (~cfg.using \/ checkKey \notin usingBones)
            THEN raised("RuntimeError", q)
            ELSE LET r == boneBuildDBFilter(q, prefix \o key, "v")
                 IN IF r.res # "ok" THEN r
                    ELSE mergeRelationalFilters(r.q, Tail(myKeys))

\* The raw keys that start with the bone's name and a dot (line 601).
RECURSIVE myKeysOf(_)
myKeysOf(rawFilter) ==
    IF rawFilter = <<>> THEN <<>>
    ELSE IF startsWith(Head(rawFilter), boneName)
    THEN <<Head(rawFilter)>> \o myKeysOf(Tail(rawFilter))
    ELSE myKeysOf(Tail(rawFilter))

buildDBFilterBug(q, rawFilter) == raised("RuntimeError", q)

\* Lines 594-676.  rawFilter is the list of the request's parameter names; the
\* bone's own name stands for <bone>=none.
buildDBFilter(q, rawFilter) ==
    IF q.fkind = "none" THEN returned(q)
    ELSE LET myKeys == myKeysOf(rawFilter)
         IN IF Len(myKeys) > 0
            THEN LET r1 == IF q.kind # viurRelations /\ cfg.multiple
                           THEN rewriteQuery(q) ELSE returned(q)
                 IN IF r1.res # "ok" THEN r1
                    ELSE LET r2 == mergeRelationalFilters(r1.q, myKeys)
                         IN IF r2.res # "ok" THEN r2
                            ELSE IF cfg.multiple
                            THEN returned([r2.q EXCEPT !.hooks = TRUE])
                            ELSE r2
            ELSE IF <<boneName>> \in Range(rawFilter)
            THEN queryFilter(q, FilterName(<<boneName>>, "="), NoneVal)
            ELSE returned(q)

\* Lines 678-706.  orderby is the request's orderby parameter, <<>> when the
\* request has none.
buildDBSort(q, orderby) ==
    IF q.fkind = "none" \/ orderby = <<>> THEN returned(q)
    ELSE IF ~startsWith(orderby, boneName) THEN returned(q)
    ELSE LET r1 == IF q.kind # viurRelations THEN rewriteQuery(q)
                   ELSE returned(q)
         IN IF r1.res # "ok" THEN r1
            ELSE IF ~(Len(orderby) = 3 /\ orderby[2] \in {"dest", "rel"})
            THEN r1
            ELSE LET type == orderby[2]
                     param == orderby[3]
                 IN IF type = "dest" /\ param \notin refKeys
                    THEN raised("RuntimeError", r1.q)
                    ELSE IF type = "rel" /\ (~cfg.using \/ param \notin usingBones)
                    THEN raised("RuntimeError", r1.q)
                    ELSE LET r2 == queryOrder(r1.q, <<(<<type, param>>)>>)
                         IN IF r2.res # "ok" THEN r2
                            ELSE returned([r2.q EXCEPT !.hooks = TRUE])

\* ------------------------------------------------------------ fromClient
\* The request data is a dict; an item of it is [own, k, v]: own tells
\* whether the parameter's name is the bone's name or starts with it and a
\* dot, k is what follows the bone's name, split at the dots, v the value.
NotSet == "NotSet"
Empty == "Empty"
Invalid == "Invalid"

ReadFromClientError(severity, index) == [severity |-> severity, index |-> index]

\* What fromClient returns: None, a list of errors or a string.
ReturnsNone == [kind |-> "None", errors |-> <<>>]
ReturnsErrors(errors) == [kind |-> "errors", errors |-> errors]
ReturnsString == [kind |-> "str", errors |-> <<>>]
NotCalled == [kind |-> "", errors |-> <<>>]

\* int(idx) of lines 404-408 and 412.
Digits == {"0", "1"}
int(idx) == IF idx = "0" THEN 0 ELSE 1

\* Lines 397-417: the index and the field an item of the request names, or
\* nothing when the item is skipped.
parsed(item) ==
    IF ~item.own THEN {}
    ELSE IF Len(item.k) >= 2
    THEN IF item.k[1] \in Digits
         THEN {[idx |-> int(item.k[1]), bname |-> item.k[2], v |-> item.v]}
         ELSE {}
    ELSE IF Len(item.k) = 1 /\ item.k[1] \in Digits /\ ~cfg.using
    THEN {[idx |-> int(item.k[1]), bname |-> "key", v |-> item.v]}
    ELSE IF ~cfg.using /\ ~cfg.multiple
    THEN {[idx |-> 0, bname |-> "key", v |-> item.v]}
    ELSE {}

\* Lines 419-429: tmpRes[idx][bname]; a field named twice holds a list.
tmpRes(data) == UNION {parsed(item) : item \in data}

fieldOf(res, idx, bname) ==
    LET vs == {p \in res : p.idx = idx /\ p.bname = bname}
    IN IF vs = {} THEN NoneVal
       ELSE IF Cardinality(vs) = 1 THEN (CHOOSE p \in vs : TRUE).v
       ELSE "list"

\* Lines 431-433: the entries that have a key, in the order of their index.
RECURSIVE tmpListFrom(_, _)
tmpListFrom(res, idxs) ==
    IF idxs = {} THEN <<>>
    ELSE LET i == CHOOSE x \in idxs : \A y \in idxs : x <= y
             rest == tmpListFrom(res, idxs \ {i})
         IN IF fieldOf(res, i, "key") = NoneVal THEN rest
            ELSE <<[key |-> fieldOf(res, i, "key"),
                    reltmp |-> fieldOf(res, i, "weight")]>> \o rest

tmpList(data) == tmpListFrom(tmpRes(data), {0, 1})

resolvesBug(key) == key \in Dests

\* Lines 444-446: db.Get of the key finds an entity.
resolves(key) == key \in Dests /\ dstStore[key].live

backupsBug(oldValues, key) == {}

\* Lines 450-461: the old value's entries with the same key.
backups(oldValues, key) ==
    {i \in 1..Len(oldValues.items) : oldValues.items[i].dest.key = key}

\* The edge schema's fromClient accepts the submitted field or reports it.
usingAccepts(reltmp) == reltmp \in Rels

\* Lines 481-506: the entry rebuilt from the referenced entity (dest) and
\* the edge schema (rel).
rebuilt(r, dest) ==
    [dest |-> dest,
     rel |-> IF cfg.using /\ usingAccepts(r.reltmp) THEN r.reltmp ELSE NoneVal]

\* Lines 439-507: the entries are resolved one after the other.  stop is set
\* when line 467 returns out of the loop.
RECURSIVE resolveAll(_, _, _, _)
resolveAll(todo, oldValues, done, errors) ==
    IF todo = <<>> THEN [stop |-> FALSE, list |-> done, errors |-> errors]
    ELSE LET r == Head(todo)
             usingErrors ==
                 IF cfg.using /\ ~usingAccepts(r.reltmp)
                 THEN <<ReadFromClientError(Invalid, Len(done))>> ELSE <<>>
         IN IF resolves(r.key)
            THEN resolveAll(Tail(todo), oldValues,
                            Append(done, rebuilt(r, [key |-> r.key,
                                                     name |-> dstStore[r.key].name])),
                            errors \o usingErrors)
            ELSE IF backups(oldValues, r.key) # {}
            THEN LET i == CHOOSE x \in backups(oldValues, r.key) :
                             \A y \in backups(oldValues, r.key) : y <= x
                 IN resolveAll(Tail(todo), oldValues,
                               Append(done, rebuilt(r, oldValues.items[i].dest)),
                               errors \o usingErrors)
            ELSE IF ~cfg.multiple
            THEN [stop |-> TRUE, list |-> done, errors |-> errors]
            ELSE resolveAll(Tail(todo), oldValues, done, errors)

\* Lines 369-370, as a bone class may override them: the entries whose
\* destination the class refuses.
isInvalid(item) == item.dest.key \in cfg.invalid

RECURSIVE invalidErrors(_, _)
invalidErrors(list, i) ==
    IF i > Len(list) THEN <<>>
    ELSE (IF isInvalid(list[i]) THEN <<ReadFromClientError(Invalid, i - 1)>>
          ELSE <<>>) \o invalidErrors(list, i + 1)

\* Line 526: the list a multiple bone stores.
storedList(list) == list

\* Lines 437-438: what a required bone without any entry returns.
returnsWhenRequired(errors) == ReturnsString

notSubmittedBug(data) == FALSE

\* Line 388: the bone's name is no key of the data and starts none.
notSubmitted(data) == \A item \in data : ~item.own

\* Lines 372-541.  The result is what the call returns and the bone's value
\* in valuesCache when it returns.
fromClient(oldValues, data) ==
    IF notSubmitted(data)
    THEN [ret |-> ReturnsErrors(<<ReadFromClientError(NotSet, -1)>>),
          val |-> oldValues]
    ELSE
    IF tmpList(data) = <<>> /\ cfg.required
    THEN [ret |-> returnsWhenRequired(<<>>), val |-> ListValue(<<>>)]
    ELSE
    LET res == resolveAll(tmpList(data), oldValues, <<>>, <<>>)
    IN IF res.stop
       THEN [ret |-> ReturnsErrors(<<ReadFromClientError(Invalid, -1)>>),
             val |-> ListValue(<<>>)]
       ELSE IF cfg.multiple
       THEN LET cleanList == SelectSeq(res.list, LAMBDA item : ~isInvalid(item))
                errors == res.errors \o invalidErrors(res.list, 1)
                            \o (IF cleanList = <<>>
                                THEN <<ReadFromClientError(Empty, -1)>> ELSE <<>>)
            IN [ret |-> IF errors # <<>> THEN ReturnsErrors(errors) ELSE ReturnsNone,
                val |-> ListValue(storedList(res.list))]
       ELSE LET val == IF res.list # <<>> THEN SingleValue(res.list[1])
                       ELSE NullValue
                err == res.list # <<>> /\ isInvalid(res.list[1])
                errors == res.errors \o
                            (IF ~err /\ res.list = <<>>
                             THEN <<ReadFromClientError(Empty, -1)>> ELSE <<>>)
            IN [ret |-> IF errors # <<>> THEN ReturnsErrors(errors) ELSE ReturnsNone,
                val |-> IF err THEN ListValue(<<>>) ELSE val]

Init ==
    /\ cfg \in [multiple : BOOLEAN, using : BOOLEAN,
                consistency : RelationalConsistency,
                required : BOOLEAN, invalid : SUBSET Dests]
    /\ srcStore = [e \in Srcs \cup OtherSrcs |-> NoEntity]
    /\ dstStore = [k \in Dests |-> NoDest]
    /\ rows = {}
    /\ nextRowKey = 1
    /\ pc = "idle"
    /\ cur = NoneVal
    /\ skel = NoSkel
    /\ txnEntity = NoEntity
    /\ txnPuts = <<>>
    /\ toLock = {}
    /\ toUnlock = {}
    /\ psQueue = <<>>
    /\ psValues = <<>>
    /\ psStart = {}
    /\ psRetried = FALSE
    /\ psRuns = 0
    /\ query = FreshQuery
    /\ qres = Returned
    /\ fcData = {}
    /\ fcRes = NotCalled
    /\ entity = NoProperties
    /\ dbEntity = NoProperties
    /\ relTasks = {}
    /\ savers = [p \in Procs |-> IdleSaver]

\* The transaction is dropped: nothing it buffered reaches the store.
Rollback(outcome) ==
    /\ pc' = outcome
    /\ cur' = NoneVal
    /\ txnEntity' = NoEntity
    /\ txnPuts' = <<>>
    /\ toLock' = {}
    /\ toUnlock' = {}
    /\ skel' = NoSkel
    /\ UNCHANGED <<cfg, qVars, storeVars, rows, nextRowKey, psVars>>

\* skel.toDB() up to line 261 of serialize: the entity is loaded, the value
\* and the outgoing lock list are written to it.
BeginSave(e, v, n) ==
    /\ pc = "idle"
    /\ pc' = "serialize"
    /\ cur' = e
    /\ skel' = [val |-> v, name |-> n]
    /\ txnEntity' = [live |-> TRUE, name |-> n, val |-> serializedValue(v),
                     locks |-> newRelationalLocks(v)]
    /\ txnPuts' = <<>>
    /\ toLock' = newRelationalLocks(v) \ oldRelationalLocks(e)
    /\ toUnlock' = oldRelationalLocks(e) \ newRelationalLocks(v)
    /\ UNCHANGED <<cfg, qVars, storeVars, rows, nextRowKey, psVars>>

\* Lines 262-270, one pass of the loop.
LockStep(newLock) ==
    /\ pc = "serialize"
    /\ newLock \in toLock
    /\ LET referencedObj == dstStore[newLock]
       IN IF ~referencedObj.live
          THEN Rollback("assert_missing")
          ELSE IF alreadyLocked(referencedObj, entityName(cur))
          THEN Rollback("assert_present")
          ELSE /\ txnPuts' = (newLock :> appendLock(referencedObj.incoming,
                                                    entityName(cur))) @@ txnPuts
               /\ toLock' = toLock \ {newLock}
               /\ UNCHANGED <<cfg, qVars, storeVars, rows, nextRowKey, pc, cur, skel,
                              txnEntity, toUnlock, psVars>>

\* Lines 271-278, one pass of the loop.
UnlockStep(oldLock) ==
    /\ pc = "serialize"
    /\ toLock = {}
    /\ oldLock \in toUnlock
    /\ LET referencedObj == dstStore[oldLock]
       IN IF ~referencedObj.live
          THEN Rollback("assert_missing")
          ELSE IF entityName(cur) \notin Range(referencedObj.incoming)
          THEN Rollback("assert_absent")
          ELSE /\ txnPuts' = (oldLock :> removeLock(referencedObj.incoming,
                                                    entityName(cur))) @@ txnPuts
               /\ toUnlock' = toUnlock \ {oldLock}
               /\ UNCHANGED <<cfg, qVars, storeVars, rows, nextRowKey, pc, cur, skel,
                              txnEntity, toLock, psVars>>

\* The entity and the buffered puts of the transaction reach the store.
CommittedDests ==
    [k \in Dests |-> IF k \in DOMAIN txnPuts
                     THEN [dstStore[k] EXCEPT !.incoming = txnPuts[k]]
                     ELSE dstStore[k]]

\* serialize returned True: the transaction of skel.toDB() commits, and the
\* bone's postSavedHandler is due.
Commit(then) ==
    /\ pc = "serialize"
    /\ toLock = {}
    /\ toUnlock = {}
    /\ srcStore' = [srcStore EXCEPT ![cur] = txnEntity]
    /\ dstStore' = CommittedDests
    /\ pc' = then
    /\ cur' = IF then = "idle" THEN NoneVal ELSE cur
    /\ skel' = IF then = "idle" THEN NoSkel ELSE skel
    /\ txnEntity' = NoEntity
    /\ txnPuts' = <<>>
    /\ UNCHANGED <<cfg, qVars, rows, nextRowKey, toLock, toUnlock, psVars>>

\* The save as the stores see it: the index handler is left aside.
CommitSave == Commit("idle")

\* The save followed by the bone's postSavedHandler.
CommitSaveIndexed == Commit("postsave")

\* The failed request has been answered.
Outcomes == {"assert_missing", "assert_present", "assert_absent", "aborted",
             "refused"}

Return ==
    /\ pc \in Outcomes
    /\ pc' = "idle"
    /\ UNCHANGED <<cfg, qVars, storeVars, rows, nextRowKey, cur, skel, txnVars, psVars>>

\* The request dies inside the transaction.
AbortSave ==
    /\ pc = "serialize"
    /\ Rollback("aborted")

\* ------------------------------------------------------ postSavedHandler
\* Lines 282-287: the bone's value as a list of dicts.
valuesOf(v) == v.items

\* The property "key" of a stored entity: the key bone writes the entity's
\* key under its own name too (line 219 reads it there from refData).
keyProperty(e) == e

\* Lines 289-293: the entity key (line 291) and the parentKeys ("key",
\* "name") of the saved entity (line 293).
parentValues(e) == [key |-> e, pkey |-> keyProperty(e), name |-> srcStore[e].name]

\* Lines 295-299: the rows of one source entity and bone, by "src.__key__".
dbVals(key) ==
    {r \in rows : /\ r.viur_src_kind = srcKind
                  /\ r.viur_dest_kind = destKind
                  /\ r.viur_src_property = boneName
                  /\ r.src.key = key}

\* The keys of a set of rows in the order the query returns them.
RECURSIVE inKeyOrder(_)
inKeyOrder(ks) ==
    IF ks = {} THEN <<>>
    ELSE LET m == CHOOSE x \in ks : \A y \in ks : x <= y
         IN <<m>> \o inKeyOrder(ks \ {m})

rowOf(rs, k) == CHOOSE r \in rs : r.key = k

\* Line 303: [x["dest"].entity.key for x in values].
destKeys(values) == {values[i].dest.key : i \in 1..Len(values)}

\* Line 309: the first value with the row's destination key.
firstMatch(values, k) ==
    values[CHOOSE i \in 1..Len(values) :
              /\ values[i].dest.key = k
              /\ \A j \in 1..(i - 1) : values[j].dest.key # k]

\* Line 306: a row whose dest cannot be read.
corrupt(dbObj) == dbObj.dest.key = NoneVal

updatedRowBug(dbObj, data, parent) == [dbObj EXCEPT !.dest = refSkelSerialize(data.dest)]

\* Lines 311-328: the row with the value's snapshots written in.
updatedRow(dbObj, data, parent) ==
    [dbObj EXCEPT !.dest = refSkelSerialize(data.dest),
                  !.src = parent,
                  !.rel = IF cfg.using THEN usingSkelSerialize(data.rel)
                          ELSE dbObj.rel]

newRowBug(rowKey, val, parent) ==
    [key |-> rowKey,
     viur_src_kind |-> srcKind,
     viur_dest_kind |-> destKind,
     viur_src_property |-> NoneVal,
     src |-> parent,
     dest |-> refSkelSerialize(val.dest),
     rel |-> IF cfg.using THEN usingSkelSerialize(val.rel) ELSE NoneVal]

\* Lines 334-358: a new row for a value that had none.
newRow(rowKey, val, parent) ==
    [key |-> rowKey,
     viur_src_kind |-> srcKind,
     viur_dest_kind |-> destKind,
     viur_src_property |-> boneName,
     src |-> parent,
     dest |-> refSkelSerialize(val.dest),
     rel |-> IF cfg.using THEN usingSkelSerialize(val.rel) ELSE NoneVal]

keepsRowBug(dbObj, values) == FALSE

\* Lines 302-308: the row stays when its destination is still a value.
keepsRow(dbObj, values) ==
    ~corrupt(dbObj) /\ dbObj.dest.key \in destKeys(values)

\* Lines 301-330 as a function: the rows and the working list after the
\* rows queue have been visited in order.
RECURSIVE visitAll(_, _, _, _)
visitAll(rs, queue, values, parent) ==
    IF queue = <<>> THEN [rows |-> rs, values |-> values]
    ELSE LET dbObj == rowOf(rs, Head(queue))
         IN IF ~keepsRow(dbObj, values)
            THEN visitAll(rs \ {dbObj}, Tail(queue), values, parent)
            ELSE LET data == firstMatch(values, dbObj.dest.key)
                 IN visitAll((rs \ {dbObj}) \cup {updatedRow(dbObj, data, parent)},
                             Tail(queue), removeFirst(values, data), parent)

\* Lines 282-299: the handler is entered for the entity just saved.
PostSavedBegin ==
    /\ pc = "postsave"
    /\ pc' = "ps_run"
    /\ psValues' = valuesOf(skel.val)
    /\ psQueue' = inKeyOrder({r.key : r \in dbVals(cur)})
    /\ psStart' = dbVals(cur)
    /\ psRetried' = FALSE
    /\ psRuns' = psRuns + 1
    /\ UNCHANGED <<cfg, qVars, storeVars, rows, nextRowKey, cur, skel, txnVars>>

\* Lines 301-330, one pass of the loop.
PostSavedVisit ==
    /\ pc = "ps_run"
    /\ psQueue # <<>>
    /\ LET dbObj == rowOf(rows, Head(psQueue))
       IN IF ~keepsRow(dbObj, psValues)
          THEN /\ rows' = rows \ {dbObj}
               /\ psValues' = psValues
          ELSE LET data == firstMatch(psValues, dbObj.dest.key)
               IN /\ rows' = (rows \ {dbObj})
                               \cup {updatedRow(dbObj, data, parentValues(cur))}
                  /\ psValues' = removeFirst(psValues, data)
    /\ psQueue' = Tail(psQueue)
    /\ UNCHANGED <<cfg, qVars, storeVars, nextRowKey, pc, cur, skel, txnVars, psStart,
                   psRetried, psRuns>>

\* Lines 333-359, one pass of the loop.
PostSavedAdd ==
    /\ pc = "ps_run"
    /\ psQueue = <<>>
    /\ psValues # <<>>
    /\ rows' = rows \cup {newRow(nextRowKey, Head(psValues), parentValues(cur))}
    /\ nextRowKey' = nextRowKey + 1
    /\ psValues' = Tail(psValues)
    /\ UNCHANGED <<cfg, qVars, storeVars, pc, cur, skel, txnVars, psQueue, psStart,
                   psRetried, psRuns>>

\* The handler is at its end.
PostSavedAtEnd == pc = "ps_run" /\ psQueue = <<>> /\ psValues = <<>>

\* The handler returns.
PostSavedDone ==
    /\ PostSavedAtEnd
    /\ pc' = "idle"
    /\ cur' = NoneVal
    /\ psStart' = {}
    /\ psRetried' = FALSE
    /\ skel' = NoSkel
    /\ UNCHANGED <<cfg, qVars, storeVars, rows, nextRowKey, txnVars, psQueue,
                   psValues, psRuns>>

\* The handler dies between two datastore calls.
PostSavedInterrupt ==
    /\ pc = "ps_run"
    /\ ~PostSavedAtEnd
    /\ pc' = "ps_interrupted"
    /\ UNCHANGED <<cfg, qVars, storeVars, rows, nextRowKey, cur, skel, txnVars, psVars>>

\* The handler is run again from its first line for the same skeleton.
PostSavedRetry ==
    /\ pc = "ps_interrupted"
    /\ pc' = "ps_run"
    /\ psValues' = valuesOf(skel.val)
    /\ psQueue' = inKeyOrder({r.key : r \in dbVals(cur)})
    /\ psRetried' = TRUE
    /\ UNCHANGED <<cfg, qVars, storeVars, rows, nextRowKey, cur, skel, txnVars,
                   psStart, psRuns>>

\* Lines 333-359 as a function: one new row for each value left.
RECURSIVE addAll(_, _, _, _)
addAll(rs, rowKey, values, parent) ==
    IF values = <<>> THEN rs
    ELSE addAll(rs \cup {newRow(rowKey, Head(values), parent)}, rowKey + 1,
                Tail(values), parent)

\* Lines 281-359: the handler from its first to its last line.
postSavedHandler(e, v) ==
    LET visited == visitAll(rows, inKeyOrder({r.key : r \in dbVals(e)}),
                            valuesOf(v), parentValues(e))
    IN addAll(visited.rows, nextRowKey, visited.values, parentValues(e))

\* ------------------------------------------------------------- deletion
postDeletedHandlerBug(key) == {r \in rows : r.src.pkey # key}

\* Lines 362-366: the rows of one source entity and bone, by "src.key".
deletedVals(key) ==
    {r \in rows : /\ r.viur_src_kind = srcKind
                  /\ r.viur_dest_kind = destKind
                  /\ r.viur_src_property = boneName
                  /\ r.src.pkey = key}

\* Lines 361-367: every row of the deleted entity and bone.
postDeletedHandler(key) == rows \ deletedVals(key)

\* skel.delete() of a referencing entity, then the bone's postDeletedHandler.
DeleteSrc(e) ==
    /\ pc = "idle"
    /\ srcStore[e].live
    /\ srcStore' = [srcStore EXCEPT ![e] = NoEntity]
    /\ rows' = postDeletedHandler(e)
    /\ UNCHANGED <<cfg, qVars, dstStore, nextRowKey, pc, cur, skel, txnVars, psVars>>

deleteRefusedBug(obj) == FALSE

\* An entity that is the target of a lock is not deleted.
deleteRefused(obj) == obj.incoming # <<>>

\* Tree.delete of a referenced entity: skel.fromDB, then skel.delete().
DeleteDest(k) ==
    /\ pc = "idle"
    /\ dstStore[k].live
    /\ IF deleteRefused(dstStore[k])
       THEN /\ pc' = "refused"
            /\ UNCHANGED dstStore
       ELSE /\ pc' = "idle"
            /\ dstStore' = [dstStore EXCEPT ![k] = NoDest]
    /\ UNCHANGED <<cfg, qVars, srcStore, rows, nextRowKey, cur, skel, txnVars, psVars>>

\* Tree.add and Tree.edit of a referenced entity: skel.toDB() writes its
\* fields and leaves its lock list as it is.
SaveDest(k, n) ==
    /\ pc = "idle"
    /\ dstStore' = [dstStore EXCEPT ![k] = [live |-> TRUE, name |-> n,
                                            incoming |-> dstStore[k].incoming]]
    /\ UNCHANGED <<cfg, qVars, srcStore, rows, nextRowKey, pc, cur, skel, txnVars,
                   psVars>>

\* The rows the same collection holds for other relational bones: another
\* bone of the same skeleton, and this bone's name with another kind.
otherBones == {[name |-> "bone2", kind |-> destKind],
               [name |-> boneName, kind |-> "dst2"]}

foreignRows ==
    {r \in rows : [name |-> r.viur_src_property, kind |-> r.viur_dest_kind]
                     \in otherBones}

\* Lines 333-359 as run by the postSavedHandler of another bone of entity e.
OtherBoneSaved(e, b, k) ==
    /\ pc = "idle"
    /\ srcStore[e].live
    /\ Cardinality(foreignRows) < MaxForeign
    /\ rows' = rows \cup
                 {[newRow(nextRowKey, Entry(k, "a", NoneVal), parentValues(e))
                     EXCEPT !.viur_src_property = b.name,
                            !.viur_dest_kind = b.kind]}
    /\ nextRowKey' = nextRowKey + 1
    /\ UNCHANGED <<cfg, qVars, storeVars, pc, cur, skel, txnVars, psVars>>

\* Lines 361-367 as run by the postDeletedHandler of another bone, once its
\* entity e is gone.
OtherBoneDeleted(e) ==
    /\ pc = "idle"
    /\ ~srcStore[e].live
    /\ \E r \in foreignRows : r.src.pkey = e
    /\ rows' = {r \in rows : ~(r \in foreignRows /\ r.src.pkey = e)}
    /\ UNCHANGED <<cfg, qVars, storeVars, nextRowKey, pc, cur, skel, txnVars, psVars>>

\* ------------------------------------------------------- list requests
progVars == <<fcData, fcRes, codecVars, taskVars, storeVars, rows, nextRowKey, pc, cur, skel, txnVars, psVars>>

\* The names a caller filters by: fields of the referencing entity with and
\* without an operator, the key, fields of the referenced entity behind the
\* bone's name, and a name already in the layout of the index.
CallerFilters ==
    {FilterName(<<"name">>, ""), FilterName(<<"name">>, "="),
     FilterName(<<"secret">>, ""), FilterName(<<"secret">>, "="),
     FilterName(<<KEY_SPECIAL_PROPERTY>>, ""),
     FilterName(<<boneName, "name">>, "="),
     FilterName(<<boneName, "secret">>, "="),
     FilterName(<<"src", "name">>, "=")}

CallerValues(name) ==
    IF name.path = <<KEY_SPECIAL_PROPERTY>> THEN {"k1", "list"} ELSE {"v"}

CallerOrders ==
    {<<"name">>, <<"secret">>, <<KEY_SPECIAL_PROPERTY>>, <<boneName, "name">>,
     <<boneName, "secret">>}

\* The parameter names of a list request that the bone looks at.
RawKeys ==
    {<<boneName, "name">>, <<boneName, "secret">>,
     <<boneName, "dest", "name">>, <<boneName, "dest", "secret">>,
     <<boneName, "rel", "weight">>, <<boneName, "other", "name">>,
     <<boneName>>}

RawFilters ==
    {s \in SeqsUpTo(RawKeys, MaxRaw) : \A i, j \in 1..Len(s) : s[i] = s[j] => i = j}

OrderBys ==
    {<<>>, <<"name">>, <<boneName, "dest", "name">>, <<boneName, "dest", "secret">>,
     <<boneName, "rel", "weight">>, <<boneName, "name">>}

\* skel.all(): the request starts a new query.
QueryNew ==
    /\ pc = "idle"
    /\ query' = FreshQuery
    /\ qres' = Returned
    /\ UNCHANGED <<cfg, progVars>>

\* A filter with IN or != makes the query's filters a list of dicts; a
\* filter that can match nothing makes them None.
QueryFilters(fkind) ==
    /\ pc = "idle"
    /\ qres = Returned
    /\ query.fkind = "dict"
    /\ query' = [query EXCEPT !.fkind = fkind]
    /\ UNCHANGED <<cfg, progVars, qres>>

\* The outcome of a call on the query: the query as the call left it, and
\* the error the call raised, if any.
Outcome(r, op, arg) ==
    /\ query' = r.q
    /\ qres' = IF r.res = "ok" THEN Returned
               ELSE [res |-> r.res, op |-> op, arg |-> arg]
    /\ UNCHANGED <<cfg, progVars>>

\* The caller adds a filter to the query.
QueryFilter(param, value) ==
    /\ pc = "idle"
    /\ qres = Returned
    /\ Cardinality(query.filters) < MaxFilters
    /\ Outcome(queryFilter(query, param, value), "filter", param.path)

\* The caller sets the query's sort order.
QueryOrder(order) ==
    /\ pc = "idle"
    /\ qres = Returned
    /\ Outcome(queryOrder(query, <<order>>), "order", order)

\* The bone's buildDBFilter is run for the request's parameters.
BuildDBFilter(rawFilter) ==
    /\ pc = "idle"
    /\ qres = Returned
    /\ Outcome(buildDBFilter(query, rawFilter), "buildDBFilter", <<>>)

\* The bone's buildDBSort is run for the request's orderby parameter.
BuildDBSort(orderby) ==
    /\ pc = "idle"
    /\ qres = Returned
    /\ Outcome(buildDBSort(query, orderby), "buildDBSort", orderby)

\* ------------------------------------------------------- edit requests
\* The parameters of an edit request that the bone may look at, and one it
\* does not.
ClientItems ==
    {[own |-> TRUE, k |-> k, v |-> v] :
        k \in {<<>>, <<"0">>, <<"0", "key">>, <<"1", "key">>, <<"x", "key">>},
        v \in Dests}
    \cup {[own |-> TRUE, k |-> <<"0", "weight">>, v |-> v] : v \in {"x", "bad"}}
    \cup {[own |-> FALSE, k |-> <<>>, v |-> "v"]}

\* The request data: a dict of at most MaxData parameters, none twice.
RECURSIVE DataUpTo(_)
DataUpTo(n) ==
    IF n = 0 THEN {{}}
    ELSE DataUpTo(n - 1) \cup
         {d \cup {item} : d \in DataUpTo(n - 1),
                          item \in ClientItems}

ClientData ==
    {d \in DataUpTo(MaxData) :
        \A a, b \in d : (a.own = b.own /\ a.k = b.k) => a = b}

\* skel.fromDB(): the skeleton holds the value the entity was saved with.
FromDB(v) ==
    /\ pc = "idle"
    /\ skel' = [val |-> v, name |-> "p"]
    /\ fcRes' = NotCalled
    /\ UNCHANGED <<cfg, query, qres, fcData, codecVars, taskVars, storeVars, rows, nextRowKey, pc,
                   cur, txnVars, psVars>>

\* An edit request arrives with its data.
Submit(data) ==
    /\ pc = "idle"
    /\ pc' = "fromClient"
    /\ fcData' = data
    /\ fcRes' = NotCalled
    /\ UNCHANGED <<cfg, query, qres, codecVars, taskVars, storeVars, rows,
                   nextRowKey, cur, skel, txnVars, psVars>>

\* skel.fromClient(data) for the bone: lines 372-541.
FromClient ==
    /\ pc = "fromClient"
    /\ pc' = "idle"
    /\ LET r == fromClient(skel.val, fcData)
       IN /\ skel' = [skel EXCEPT !.val = r.val]
          /\ fcRes' = r.ret
    /\ UNCHANGED <<cfg, query, qres, fcData, codecVars, taskVars, storeVars, rows, nextRowKey, cur,
                   txnVars, psVars>>

\* ------------------------------------------------------ concurrent saves
\* Two requests, each saving its own referencing entity.
ProcEntity(p) == IF p = 1 THEN "e1" ELSE "e2"

conflictsBug(s) == FALSE

\* The datastore's transaction: the commit collides when an entity the
\* transaction has read was written by another one since.
conflicts(s) ==
    \E k \in Dests :
        /\ s.reads[k] # Untouched
        /\ ~dstStore[k].live \/ dstStore[k].incoming # s.reads[k]

othersUnchanged ==
    UNCHANGED <<cfg, query, qres, fcData, fcRes, codecVars, relTasks, rows,
                nextRowKey, pc, cur, skel, txnVars, psVars>>

\* skel.toDB() of request p up to line 261 of serialize.
ConcBegin(p, v) ==
    /\ savers[p].pc = "idle"
    /\ savers' = [savers EXCEPT ![p] =
           [pc |-> "serialize",
            entity |-> [live |-> TRUE, name |-> "p", val |-> serializedValue(v),
                        locks |-> newRelationalLocks(v)],
            reads |-> NoAccess,
            puts |-> NoAccess,
            toLock |-> newRelationalLocks(v) \ oldRelationalLocks(ProcEntity(p)),
            toUnlock |-> oldRelationalLocks(ProcEntity(p)) \ newRelationalLocks(v)]]
    /\ UNCHANGED storeVars
    /\ othersUnchanged

\* Lines 262-270 for request p, one pass of the loop: get, append, put.
ConcLockStep(p, newLock) ==
    /\ savers[p].pc = "serialize"
    /\ newLock \in savers[p].toLock
    /\ LET referencedObj == dstStore[newLock]
           name == entityName(ProcEntity(p))
       IN IF ~referencedObj.live \/ alreadyLocked(referencedObj, name)
          THEN savers' = [savers EXCEPT ![p] = IdleSaver]
          ELSE savers' = [savers EXCEPT
                   ![p].reads[newLock] = referencedObj.incoming,
                   ![p].puts[newLock] = appendLock(referencedObj.incoming, name),
                   ![p].toLock = @ \ {newLock}]
    /\ UNCHANGED storeVars
    /\ othersUnchanged

\* Lines 271-278 for request p, one pass of the loop: get, remove, put.
ConcUnlockStep(p, oldLock) ==
    /\ savers[p].pc = "serialize"
    /\ savers[p].toLock = {}
    /\ oldLock \in savers[p].toUnlock
    /\ LET referencedObj == dstStore[oldLock]
           name == entityName(ProcEntity(p))
       IN IF ~referencedObj.live \/ name \notin Range(referencedObj.incoming)
          THEN savers' = [savers EXCEPT ![p] = IdleSaver]
          ELSE savers' = [savers EXCEPT
                   ![p].reads[oldLock] = referencedObj.incoming,
                   ![p].puts[oldLock] = removeLock(referencedObj.incoming, name),
                   ![p].toUnlock = @ \ {oldLock}]
    /\ UNCHANGED storeVars
    /\ othersUnchanged

\* The transaction of request p ends: it commits the entity with its puts,
\* or it collides and nothing of it reaches the store.
ConcCommit(p) ==
    /\ savers[p].pc = "serialize"
    /\ savers[p].toLock = {}
    /\ savers[p].toUnlock = {}
    /\ savers' = [savers EXCEPT ![p] = IdleSaver]
    /\ IF conflicts(savers[p])
       THEN UNCHANGED storeVars
       ELSE /\ srcStore' = [srcStore EXCEPT ![ProcEntity(p)] = savers[p].entity]
            /\ dstStore' = [k \in Dests |->
                               IF savers[p].puts[k] # Untouched
                               THEN [dstStore[k] EXCEPT !.incoming = savers[p].puts[k]]
                               ELSE dstStore[k]]
    /\ othersUnchanged

\* ---------------------------------------------------------------- refresh
\* Lines 801-807: the method logs that it is disabled and returns before it
\* looks at updateLevel or at the value; the value is left as it is.
refresh(v) == v

\* The live entities of the referencing kind whose value holds the key.
referencing(k) ==
    {e \in Srcs : srcStore[e].live /\ k \in destKeys(srcStore[e].val.items)}

\* Tree.edit of a referenced entity on a system that runs the deferred
\* task of lines 40-43: skel.toDB() writes the entity and queues the update
\* of the entities that reference it.
SaveDestDeferred(k, n) ==
    /\ pc = "idle"
    /\ dstStore' = [dstStore EXCEPT ![k] = [live |-> TRUE, name |-> n,
                                            incoming |-> dstStore[k].incoming]]
    /\ relTasks' = relTasks \cup {[dest |-> k, src |-> e] : e \in referencing(k)}
    /\ UNCHANGED <<cfg, query, qres, fcData, fcRes, codecVars, savers, srcStore,
                   rows, nextRowKey, pc, cur, skel, txnVars, psVars>>

\* The deferred task for one referencing entity: the skeleton is read,
\* refresh is called for the bone, and the skeleton is written again with
\* its postSavedHandler.
UpdateRelations(t) ==
    /\ pc = "idle"
    /\ t \in relTasks
    /\ relTasks' = relTasks \ {t}
    /\ IF ~srcStore[t.src].live
       THEN UNCHANGED <<srcStore, rows, nextRowKey>>
       ELSE LET v == refresh(srcStore[t.src].val)
            IN /\ srcStore' = [srcStore EXCEPT ![t.src].val = serializedValue(v)]
               /\ rows' = postSavedHandler(t.src, v)
               /\ nextRowKey' = nextRowKey
                     + Cardinality({r.key : r \in postSavedHandler(t.src, v)}
                                      \ {r.key : r \in rows})
    /\ UNCHANGED <<cfg, query, qres, fcData, fcRes, codecVars, savers, dstStore,
                   pc, cur, skel, txnVars, psVars>>

\* ------------------------------------------------- the entity's properties
\* A property name is a dotted path, as a filter name is.
ownProperty == <<boneName>>
locksProperty == <<"bone_outgoingRelationalLocks">>

\* Properties an entity may carry besides the bone's two: fields of the
\* skeleton, and what an earlier schema left under the bone's name.
otherProperties ==
    {<<"name">>, <<"bone2">>, <<boneName, "dest", "name">>, <<boneName, "x">>}

purgedBug(e) == DOMAIN e

\* Lines 205-207: the names that stay, k.startswith(name + ".") being false.
purged(e) == {k \in DOMAIN e : ~startsWith(k, boneName)}

\* Lines 201-261 on the entity: the old properties under the bone's name are
\* deleted, the value and the outgoing lock list are written.
serialize(e, v) ==
    [k \in purged(e) \cup {ownProperty, locksProperty} |->
        IF k = ownProperty THEN serializedValue(v)
        ELSE IF k = locksProperty THEN newRelationalLocks(v)
        ELSE e[k]]

\* RefSkel.unserialize of a stored dest: the refKeys are read.
refSkelUnserialize(dest) == [key |-> dest.key, name |-> dest.name]

restoredRelBug(rel) == rel

\* Lines 150-157: the edge data of a stored value.  With an edge schema the
\* result is the using skeleton's values cache, read from rel when rel is not
\* None; without one it is None.
restoredRel(rel) ==
    IF cfg.using
    THEN IF rel # NoneVal THEN rel ELSE EmptyValuesCache
    ELSE NoneVal

\* Lines 133-158.
restoreValueFromDatastore(val) ==
    [dest |-> refSkelUnserialize(val.dest), rel |-> restoredRel(val.rel)]

\* Lines 160-199: the value read from the entity, and whether the entity had
\* the property; without it the skeleton's value is left as it is.
unserialize(e, old) ==
    IF ownProperty \notin DOMAIN e THEN [found |-> FALSE, val |-> old]
    ELSE LET val == e[ownProperty]
             restored == [i \in 1..Len(val.items) |->
                             restoreValueFromDatastore(val.items[i])]
         IN [found |-> TRUE,
             val |-> IF cfg.multiple
                     THEN ListValue(restored)
                     ELSE IF Len(val.items) > 0
                     THEN SingleValue(restored[1])
                     ELSE NullValue]

\* An entity of an earlier version of the application is in the datastore.
PutLegacy(keys) ==
    /\ pc = "idle"
    /\ dbEntity' = [k \in keys |-> "old"]
    /\ UNCHANGED <<cfg, query, qres, fcData, fcRes, entity, taskVars, storeVars,
                   rows,
                   nextRowKey, pc, cur, skel, txnVars, psVars>>

\* db.Get: the skeleton's entity is the datastore's.
ReadEntity ==
    /\ pc = "idle"
    /\ pc' = "loaded"
    /\ entity' = dbEntity
    /\ UNCHANGED <<cfg, query, qres, fcData, fcRes, dbEntity, taskVars, storeVars,
                   rows,
                   nextRowKey, cur, skel, txnVars, psVars>>

\* The bone's value is set in memory.
SetValue(v) ==
    /\ pc = "loaded"
    /\ skel' = [skel EXCEPT !.val = v]
    /\ UNCHANGED <<cfg, query, qres, fcData, fcRes, codecVars, taskVars, storeVars,
                   rows,
                   nextRowKey, pc, cur, txnVars, psVars>>

\* serialize under a policy that locks nothing, on an entity that holds no
\* lock: both loops of lines 262-278 run over the empty set.
Serialize ==
    /\ pc = "loaded"
    /\ newRelationalLocks(skel.val) = {}
    /\ locksProperty \in DOMAIN entity => entity[locksProperty] = {}
    /\ pc' = "serialized"
    /\ entity' = serialize(entity, skel.val)
    /\ UNCHANGED <<cfg, query, qres, fcData, fcRes, dbEntity, taskVars, storeVars,
                   rows,
                   nextRowKey, cur, skel, txnVars, psVars>>

\* unserialize of the entity in memory.
Unserialize ==
    /\ pc \in {"loaded", "serialized"}
    /\ skel' = [skel EXCEPT !.val = unserialize(entity, skel.val).val]
    /\ UNCHANGED <<cfg, query, qres, fcData, fcRes, codecVars, taskVars, storeVars,
                   rows,
                   nextRowKey, pc, cur, txnVars, psVars>>

\* db.Put of the entity.
PutEntity ==
    /\ pc = "serialized"
    /\ pc' = "idle"
    /\ dbEntity' = entity
    /\ UNCHANGED <<cfg, query, qres, fcData, fcRes, entity, taskVars, storeVars,
                   rows,
                   nextRowKey, cur, skel, txnVars, psVars>>

\* ------------------------------------------------------- specifications
\* The lock protocol: every consistency policy, values that differ in their
\* destination keys, referenced entities that come and go.
LockValues == BoneValues(cfg.multiple, cfg.using, {"a"}, Rels)

Next ==
    \/ \E e \in Srcs : \E v \in LockValues : BeginSave(e, v, "p")
    \/ \E k \in Dests : LockStep(k)
    \/ \E k \in Dests : UnlockStep(k)
    \/ CommitSave
    \/ AbortSave
    \/ Return
    \/ \E e \in Srcs : DeleteSrc(e)
    \/ \E k \in Dests : DeleteDest(k)
    \/ \E k \in Dests : SaveDest(k, "a")

InitLock ==
    /\ Init
    /\ ~cfg.using
    /\ ~cfg.required
    /\ cfg.invalid = {}

Spec == InitLock /\ [][Next]_vars

\* The relation index: a bone that locks nothing (serialize then has no lock
\* to take or give back), values that differ in every snapshot, and the
\* handler taken one datastore call at a time.
InitIndex ==
    /\ Init
    /\ cfg.consistency = Ignore
    /\ ~cfg.required
    /\ cfg.invalid = {}

IndexValues ==
    BoneValues(cfg.multiple, cfg.using,
               IF cfg.using THEN {"a"} ELSE DestNames, Rels)

NextIndex ==
    \/ \E e \in Srcs, n \in SrcNames : \E v \in IndexValues :
          psRuns < MaxRuns /\ BeginSave(e, v, n)
    \/ CommitSaveIndexed
    \/ AbortSave
    \/ Return
    \/ PostSavedBegin
    \/ PostSavedVisit
    \/ PostSavedAdd
    \/ PostSavedDone
    \/ PostSavedInterrupt
    \/ PostSavedRetry
    \/ \E e \in Srcs : DeleteSrc(e)
    \/ \E e \in Srcs, b \in otherBones : OtherBoneSaved(e, b, "t1")
    \/ \E e \in Srcs : OtherBoneDeleted(e)

SpecIndex == InitIndex /\ [][NextIndex]_vars

\* List requests: the query a caller builds, the bone's buildDBFilter and
\* buildDBSort, and the filters and orders added before and after them.
InitQuery ==
    /\ Init
    /\ cfg.consistency = Ignore
    /\ ~cfg.required
    /\ cfg.invalid = {}

NextQuery ==
    \/ QueryNew
    \/ \E fkind \in {"list", "none"} : QueryFilters(fkind)
    \/ \E param \in CallerFilters : \E value \in CallerValues(param) :
          QueryFilter(param, value)
    \/ \E order \in CallerOrders : QueryOrder(order)
    \/ \E rawFilter \in RawFilters : BuildDBFilter(rawFilter)
    \/ \E orderby \in OrderBys : BuildDBSort(orderby)

SpecQuery == InitQuery /\ [][NextQuery]_vars

\* Edit requests: referenced entities come and go, a skeleton is read with
\* the value an earlier save left, and fromClient reads the request.
InitClient ==
    /\ Init
    /\ cfg.consistency = Ignore

ClientValues == BoneValues(cfg.multiple, cfg.using, {"a"}, {"x"})

NextClient ==
    \/ \E k \in Dests : SaveDest(k, "a")
    \/ \E k \in Dests : DeleteDest(k)
    \/ \E v \in ClientValues : FromDB(v)
    \/ \E data \in ClientData : Submit(data)
    \/ FromClient

SpecClient == InitClient /\ [][NextClient]_vars

\* Concurrent saves: two requests save their entities at the same time while
\* referenced entities are created.
NextConcurrent ==
    \/ \E p \in Procs : \E v \in LockValues : ConcBegin(p, v)
    \/ \E p \in Procs, k \in Dests : ConcLockStep(p, k)
    \/ \E p \in Procs, k \in Dests : ConcUnlockStep(p, k)
    \/ \E p \in Procs : ConcCommit(p)
    \/ \E k \in Dests : SaveDest(k, "a")

SpecConcurrent == InitLock /\ [][NextConcurrent]_vars

\* Stale copies: referenced entities are saved with new field values,
\* referencing entities are saved with the copies fromClient made of the
\* live entities, and the deferred task runs.  A request runs to its end and
\* a queued task is run until it is done.
RefreshValues ==
    {v \in BoneValues(cfg.multiple, cfg.using, DestNames, {"x"}) :
        /\ Len(v.items) <= 1
        /\ \A i \in 1..Len(v.items) :
              /\ dstStore[v.items[i].dest.key].live
              /\ v.items[i].dest.name = dstStore[v.items[i].dest.key].name}

NextRefresh ==
    \/ \E v \in RefreshValues : psRuns < MaxRuns /\ BeginSave("e1", v, "p")
    \/ CommitSaveIndexed
    \/ PostSavedBegin
    \/ PostSavedVisit
    \/ PostSavedAdd
    \/ PostSavedDone
    \/ \E k \in Dests, n \in DestNames : SaveDestDeferred(k, n)
    \/ \E t \in relTasks : UpdateRelations(t)

SpecRefresh ==
    /\ InitIndex
    /\ [][NextRefresh]_vars
    /\ WF_vars(CommitSaveIndexed)
    /\ WF_vars(PostSavedBegin)
    /\ WF_vars(PostSavedVisit)
    /\ WF_vars(PostSavedAdd)
    /\ WF_vars(PostSavedDone)
    /\ WF_vars(\E t \in relTasks : UpdateRelations(t))

\* Lock holders of two kinds: an entity of the referencing kind and one of a
\* second kind with the same name are saved; no referencing entity is
\* deleted.
KindSrcs == {"e1"} \cup OtherSrcs

NextKinds ==
    \/ \E e \in KindSrcs : \E v \in LockValues : BeginSave(e, v, "p")
    \/ \E k \in Dests : LockStep(k)
    \/ \E k \in Dests : UnlockStep(k)
    \/ CommitSave
    \/ AbortSave
    \/ Return
    \/ \E k \in Dests : DeleteDest(k)
    \/ \E k \in Dests : SaveDest(k, "a")

SpecKinds == InitLock /\ [][NextKinds]_vars

\* The codec: entities with properties of an earlier schema, values with and
\* without edge data, written by serialize and read back by unserialize.
InitCodec ==
    /\ Init
    /\ cfg.consistency = Ignore
    /\ ~cfg.required
    /\ cfg.invalid = {}

CodecValues == BoneValues(cfg.multiple, cfg.using, {"a"}, {"x", NoneVal})

NextCodec ==
    \/ \E keys \in SUBSET otherProperties : PutLegacy(keys)
    \/ ReadEntity
    \/ \E v \in CodecValues : SetValue(v)
    \/ Serialize
    \/ Unserialize
    \/ PutEntity

SpecCodec == InitCodec /\ [][NextCodec]_vars

\* ------------------------------------------------------------------ claims
\* The live referencing entities whose bone value holds dest.key = k.
Holders(k) ==
    {e \in Srcs : srcStore[e].live /\ k \in destKeys(srcStore[e].val.items)}

\* C1: under PreventDeletion, after any sequence of saves and deletions of
\* referencing entities, the identities in a referenced entity's incoming
\* lock list are exactly the live referencing entities whose bone value
\* holds its key.
C1_LockListIsLiveHolders ==
    cfg.consistency = PreventDeletion =>
        \A k \in Dests :
            dstStore[k].live =>
                Range(dstStore[k].incoming) = {entityName(e) : e \in Holders(k)}

\* In stores S (referencing) and D (referenced), entity e holds an outgoing
\* lock on k exactly when its identity is in k's incoming lock list.
LocksAgree(S, D, e) ==
    \A k \in Dests :
        (S[e].live /\ k \in S[e].locks)
            <=> (D[k].live /\ entityName(e) \in Range(D[k].incoming))

\* C2: the incoming-list writes of serialize and the save of the entity with
\* its outgoing lock list reach the store together or not at all: no step of
\* a save, an abort or a failed assertion included, takes the store from
\* agreeing lock lists to an incoming entry without its outgoing lock or an
\* outgoing lock without its incoming entry.
C2_LockWritesAtomic ==
    [][(pc = "serialize" /\ LocksAgree(srcStore, dstStore, cur))
          => LocksAgree(srcStore', dstStore', cur)]_vars

\* A save stands between two of its lock writes, where it may still abort.
C2_Witness ==
    /\ pc = "serialize"
    /\ DOMAIN txnPuts # {}
    /\ toLock \cup toUnlock # {}
    /\ LocksAgree(srcStore, dstStore, cur)

ExpectedLocks(obj) ==
    IF cfg.consistency = PreventDeletion THEN destKeys(obj.val.items) ELSE {}

\* C4: after every serialize the outgoing lock list is the set of destination
\* keys of the bone's value under PreventDeletion and empty under every other
\* policy.
C4_OutgoingLocksFollowPolicy ==
    /\ \A e \in Srcs : srcStore[e].live => srcStore[e].locks = ExpectedLocks(srcStore[e])
    /\ pc = "serialize" => txnEntity.locks = ExpectedLocks(txnEntity)

\* An entity saved with a value under a policy that locks nothing.
C4_Witness ==
    \E e \in Srcs :
        /\ srcStore[e].live
        /\ ~Falsy(srcStore[e].val)
        /\ cfg.consistency = CascadeDeletion
        /\ srcStore[e].locks = {}

\* The step is the commit of the save in progress.
IsCommit == pc = "serialize" /\ pc' \in {"idle", "postsave"}

\* C5: a save commits only when every key of newLocks - oldLocks named a
\* live entity without the saving entity's identity in its list, and then
\* that list is the old one with the identity appended; a missing entity or
\* an identity already present ends the save with the store untouched.
C5_LockAcquire ==
    [][/\ IsCommit =>
            \A k \in txnEntity.locks \ oldRelationalLocks(cur) :
                /\ dstStore[k].live
                /\ entityName(cur) \notin Range(dstStore[k].incoming)
                /\ dstStore'[k].live
                /\ dstStore'[k].incoming
                      = Append(dstStore[k].incoming, entityName(cur))
       /\ (pc = "serialize" /\ \E k \in toLock : ~dstStore[k].live)
             => (~IsCommit /\ UNCHANGED storeVars)
       /\ (pc = "serialize"
              /\ \E k \in toLock : entityName(cur) \in Range(dstStore[k].incoming))
             => (~IsCommit /\ UNCHANGED storeVars)
       /\ (pc = "serialize" /\ pc' \in {"assert_missing", "assert_present"})
             => UNCHANGED storeVars]_vars

\* A save has just failed on a new lock whose entity is missing.
C5_Witness == pc = "assert_missing"

ownRow(r) ==
    /\ r.viur_src_kind = srcKind
    /\ r.viur_dest_kind = destKind
    /\ r.viur_src_property = boneName

\* The rows of this bone for source entity e, whatever else they carry.
RowsOfSrc(e) == {r \in rows : ownRow(r) /\ r.src.key = e}

RowKeys(rs) == {r.key : r \in rs}

\* What a row of entity e holds for value entry x once the handler is done.
RowContent(e, x) ==
    [src |-> parentValues(e),
     dest |-> [key |-> x.dest.key, name |-> x.dest.name],
     rel |-> IF cfg.using THEN x.rel ELSE NoneVal]

ContentOf(r) == [src |-> r.src, dest |-> r.dest, rel |-> r.rel]

\* C7: when postSavedHandler is done for a multiple bone of entity E, the
\* rows of (E's kind, the bone's kind, the bone name, E's key) and the entries
\* of the new value correspond one to one: each content occurs as often among
\* the rows as among the entries, so no row of a dropped destination is left,
\* every row carries the new dest, rel and src, and every entry has its row.
C7_RowsMatchValue ==
    (PostSavedAtEnd /\ cfg.multiple) =>
        LET values == valuesOf(skel.val)
            wanted == {RowContent(cur, values[i]) : i \in 1..Len(values)}
        IN /\ RowsOfSrc(cur) = dbVals(cur)
           /\ \A r \in dbVals(cur) : ContentOf(r) \in wanted
           /\ \A c \in wanted :
                 Cardinality({r \in dbVals(cur) : ContentOf(r) = c})
                    = Cardinality({i \in 1..Len(values) :
                                      RowContent(cur, values[i]) = c})

\* The handler is done after deleting a row, rewriting a row and adding one.
C7_Witness ==
    /\ PostSavedAtEnd
    /\ cfg.multiple
    /\ \E r \in psStart : r.key \notin RowKeys(rows)
    /\ \E r \in psStart : \E q \in rows : q.key = r.key /\ q # r
    /\ \E q \in dbVals(cur) : q.key \notin RowKeys(psStart)

\* C8: reconciliation is idempotent: once postSavedHandler is done for a
\* multiple bone, running it again for the same entity and value leaves the
\* same rows, with the same row keys and the same dest, rel and src.
C8_ReconcileIdempotent ==
    (PostSavedAtEnd /\ cfg.multiple) => postSavedHandler(cur, skel.val) = rows

\* The handler is done and found every row as it leaves it: it was a re-run.
C8_Witness ==
    /\ PostSavedAtEnd
    /\ cfg.multiple
    /\ psStart # {}
    /\ psStart = dbVals(cur)

\* C9 as stated: every row whose destination key is in the value before and
\* after the save still has its row key when the handler is done.
C9_EveryMatchingRowKept ==
    (PostSavedAtEnd /\ cfg.multiple) =>
        \A r \in psStart :
            r.dest.key \in destKeys(valuesOf(skel.val)) => r.key \in RowKeys(rows)

\* The rows of psStart with the destination key of r, up to r in query order.
RowsUpTo(r) == {q \in psStart : q.dest.key = r.dest.key /\ q.key <= r.key}

\* The entries of the value with destination key k.
EntriesWith(values, k) == {i \in 1..Len(values) : values[i].dest.key = k}

\* C9, amended: a row keeps its row key across postSavedHandler when the new
\* value has an entry left for it, that is at least as many entries with its
\* destination key as there are rows with that key up to it in query order;
\* a row beyond that count is deleted, and none is deleted and re-inserted.
C9_MatchedRowKept ==
    (PostSavedAtEnd /\ cfg.multiple) =>
        \A r \in psStart :
            IF Cardinality(RowsUpTo(r))
                  <= Cardinality(EntriesWith(valuesOf(skel.val), r.dest.key))
            THEN r.key \in RowKeys(rows)
            ELSE r.key \notin RowKeys(rows)

\* The handler is done and a row of before carries new content under its key.
C9_Witness ==
    /\ PostSavedAtEnd
    /\ cfg.multiple
    /\ \E r \in psStart : \E q \in rows : q.key = r.key /\ q # r

\* The rows in rs in key order, their keys left out.
RECURSIVE contentsInKeyOrder(_)
contentsInKeyOrder(rs) ==
    IF rs = {} THEN <<>>
    ELSE LET m == CHOOSE r \in rs : \A q \in rs : r.key <= q.key
         IN <<ContentOf(m)>> \o contentsInKeyOrder(rs \ {m})

\* C10: when postSavedHandler was interrupted and re-run to its end for the
\* same value, the rows of the source entity are those of one uninterrupted
\* run from the rows it first found: the same rows kept and rewritten, and
\* one new row for each value left, none twice and none missing.
C10_RetryConverges ==
    (PostSavedAtEnd /\ psRetried) =>
        LET once == visitAll(psStart, inKeyOrder(RowKeys(psStart)),
                             valuesOf(skel.val), parentValues(cur))
            kept == {r \in RowsOfSrc(cur) : r.key \in RowKeys(psStart)}
            added == RowsOfSrc(cur) \ kept
        IN /\ kept = once.rows
           /\ contentsInKeyOrder(added)
                 = [i \in 1..Len(once.values) |-> RowContent(cur, once.values[i])]

\* The re-run handler is done, with rows kept from before and rows added.
C10_Witness ==
    /\ PostSavedAtEnd
    /\ psRetried
    /\ \E r \in RowsOfSrc(cur) : r.key \in RowKeys(psStart)
    /\ \E r \in RowsOfSrc(cur) : r.key \notin RowKeys(psStart)
    /\ Cardinality(RowsOfSrc(cur)) = MaxVals

C12_RowsOnlyForMultiple ==
    ~cfg.multiple => \A r \in rows : ~ownRow(r)

\* The raw key names a field of the referenced entity outside refKeys, as
\* <bone>.<field> or as <bone>.dest.<field>.
outsideRefKeys(myKey) ==
    \/ Len(myKey) = 2 /\ myKey[1] = boneName /\ myKey[2] \notin refKeys \cup {"dest", "rel"}
    \/ Len(myKey) = 3 /\ myKey[1] = boneName /\ myKey[2] = "dest"
          /\ myKey[3] \notin refKeys

\* C13 as stated: buildDBFilter raises whenever a raw filter key names a
\* field outside refKeys, for every declaration of the bone; it never
\* returns a query built without that filter.
C13_FieldOutsideRefKeysRejected ==
    [][\A rawFilter \in RawFilters :
          (/\ \E i \in 1..Len(rawFilter) : outsideRefKeys(rawFilter[i])
           /\ query.fkind # "none"
           /\ BuildDBFilter(rawFilter)) => qres'.res \in Errors]_vars

\* A filter or sort name on a field of the referencing entity itself, not
\* the key and not in parentKeys.
outsideParentKeys(path) ==
    /\ path[1] \notin parentKeys \cup {KEY_SPECIAL_PROPERTY}
    /\ path[1] \notin {boneName, "src", "dest", "rel"}

\* The step redirects the query of a multiple bone to the relation index
\* (line 554 of _rewriteQuery has run).
Rewrites ==
    /\ cfg.multiple
    /\ query.kind = srcKind
    /\ query'.kind = viurRelations

\* C14: for a multiple bone, a filter or sort on a field of the referencing
\* entity outside parentKeys (the key aside) raises an error: when it is on
\* the query that _rewriteQuery rewrites, and when it is added afterwards
\* through filterHook or orderHook, which then leave the query as it was.
C14_FieldOutsideParentKeysRejected ==
    [][/\ (/\ Rewrites
           /\ \/ \E f \in query.filters : outsideParentKeys(f.path)
              \/ \E i \in 1..Len(query.orders) : outsideParentKeys(query.orders[i]))
             => qres'.res \in Errors
       /\ \A param \in CallerFilters : \A value \in CallerValues(param) :
             (/\ cfg.multiple /\ query.hooks
              /\ outsideParentKeys(param.path)
              /\ QueryFilter(param, value))
                => (qres'.res = "RuntimeError" /\ query' = query)
       /\ \A order \in CallerOrders :
             (/\ cfg.multiple /\ query.hooks
              /\ outsideParentKeys(order)
              /\ QueryOrder(order))
                => (qres'.res = "RuntimeError" /\ query' = query)]_vars

\* A filter on a field outside parentKeys has just been refused by the hook
\* of a rewritten query.
C14_Witness ==
    /\ cfg.multiple
    /\ query.hooks
    /\ query.kind = viurRelations
    /\ qres.res = "RuntimeError"
    /\ qres.op = "filter"
    /\ qres.arg = <<"secret">>

\* C15 as stated: the query of a bone that is not multiple stays on the
\* referencing kind through buildDBFilter and buildDBSort.
C15_NoSwitchWithoutMultiple ==
    ~cfg.multiple => query.kind = srcKind

\* An equality filter on the field name with the value val.
hasEquality(filters, name, val) ==
    \E f \in filters : f.path = <<name>> /\ f.op \in {"", "="} /\ f.val = val

namesLostKey(oldValues, data) ==
    \E i \in 1..Len(tmpList(data)) :
        /\ ~resolves(tmpList(data)[i].key)
        /\ backups(oldValues, tmpList(data)[i].key) = {}

\* C17 as stated: for a bone that is not multiple, a request naming a key
\* that cannot be resolved and that the old value does not hold makes
\* fromClient return one Invalid error and leave the bone's value in
\* valuesCache as it was.
C17_LostKeyKeepsValue ==
    [][(/\ pc = "fromClient"
        /\ ~cfg.multiple
        /\ namesLostKey(skel.val, fcData))
          => /\ fcRes' = ReturnsErrors(<<ReadFromClientError(Invalid, -1)>>)
             /\ skel'.val = skel.val]_vars

\* C18: when the request has neither the bone's name nor a name starting
\* with it and a dot, fromClient returns one NotSet error and leaves the
\* bone's value in valuesCache as it was.
C18_NotSubmittedShortCircuits ==
    [][(pc = "fromClient" /\ \A item \in fcData : ~item.own)
          => /\ fcRes' = ReturnsErrors(<<ReadFromClientError(NotSet, -1)>>)
             /\ skel' = skel]_vars

\* fromClient found nothing submitted and the value read from the entity is
\* still in place.
C18_Witness ==
    /\ fcRes = ReturnsErrors(<<ReadFromClientError(NotSet, -1)>>)
    /\ ~Falsy(skel.val)

\* C19 as stated: for a multiple bone, the list fromClient stores holds no
\* entry that fails isInvalid, every such entry is reported as an Invalid
\* error, and when no entry passes an Empty error is reported and the stored
\* list is empty.
C19_InvalidEntriesLeftOut ==
    [][(/\ pc = "fromClient"
        /\ cfg.multiple
        /\ \E item \in fcData : item.own
        /\ ~(cfg.required /\ tmpList(fcData) = <<>>))
          => /\ \A i \in 1..Len(skel'.val.items) : ~isInvalid(skel'.val.items[i])
             /\ LET list == resolveAll(tmpList(fcData), skel.val, <<>>, <<>>).list
                IN \A i \in 1..Len(list) :
                      isInvalid(list[i]) =>
                          ReadFromClientError(Invalid, i - 1) \in Range(fcRes'.errors)
             /\ (\A e \in Range(resolveAll(tmpList(fcData), skel.val, <<>>, <<>>).list) :
                    isInvalid(e))
                  => /\ \E j \in 1..Len(fcRes'.errors) :
                           fcRes'.errors[j].severity = Empty
                     /\ skel'.val = ListValue(<<>>)]_vars

\* C20 as stated: fromClient returns nothing or a non-empty sequence of
\* errors, never a string and never an empty sequence, and nothing only
\* when the submitted value was accepted and stored.
C20_ReturnsNoneOrErrors ==
    /\ fcRes.kind \in {"", "None", "errors"}
    /\ fcRes.kind = "errors" => fcRes.errors # <<>>
    /\ (fcRes.kind = "None" /\ cfg.multiple) =>
          \A i \in 1..Len(skel.val.items) : ~isInvalid(skel.val.items[i])
    /\ (fcRes.kind = "None" /\ ~cfg.multiple) =>
          (skel.val.kind = "single" /\ ~isInvalid(skel.val.items[1]))

\* The key the request gives for client index i, None when it gives none.
keyAt(data, i) == fieldOf(tmpRes(data), i, "key")

\* The datastore holds an entity under the key.
found(key) == key \in Dests /\ dstStore[key].live

\* The positions of the old value whose dest has the key.
heldAt(oldValues, key) ==
    {i \in 1..Len(oldValues.items) : oldValues.items[i].dest.key = key}

\* The candidate of client index i has a key that the datastore finds or
\* that the old value holds.
recoverable(oldValues, data, i) ==
    /\ keyAt(data, i) # NoneVal
    /\ found(keyAt(data, i)) \/ heldAt(oldValues, keyAt(data, i)) # {}

\* The keys of the candidates that are kept, by ascending client index.
keptKeys(oldValues, data) ==
    (IF recoverable(oldValues, data, 0) THEN <<keyAt(data, 0)>> ELSE <<>>)
        \o (IF recoverable(oldValues, data, 1) THEN <<keyAt(data, 1)>> ELSE <<>>)

fallback(oldValues, key) ==
    LET i == CHOOSE x \in heldAt(oldValues, key) :
                 \A y \in heldAt(oldValues, key) : y <= x
    IN oldValues.items[i].dest

\* C22: when every candidate's key is found or held by the old value, a
\* candidate whose entity is not found is kept with the dest snapshot of the
\* old value; it is not dropped, and the call reports no Invalid error for
\* it.
C22_FallbackSnapshotKept ==
    [][(/\ pc = "fromClient"
        /\ \E i \in {0, 1} : keyAt(fcData, i) # NoneVal
        /\ \A i \in {0, 1} :
              keyAt(fcData, i) # NoneVal =>
                  (recoverable(skel.val, fcData, i) /\ keyAt(fcData, i) \notin cfg.invalid))
          => LET keys == keptKeys(skel.val, fcData)
             IN /\ Len(skel'.val.items) = IF cfg.multiple THEN Len(keys) ELSE 1
                /\ \A j \in 1..Len(skel'.val.items) :
                      /\ skel'.val.items[j].dest.key = keys[j]
                      /\ ~found(keys[j]) =>
                            skel'.val.items[j].dest = fallback(skel.val, keys[j])
                /\ ReadFromClientError(Invalid, -1) \notin Range(fcRes'.errors)
                /\ ~cfg.using =>
                      \A j \in 1..Len(fcRes'.errors) :
                          fcRes'.errors[j].severity # Invalid]_vars

\* A key without an entity was submitted and the stored value holds it with
\* a snapshot.
C22_Witness ==
    /\ pc = "idle"
    /\ fcRes.kind = "None"
    /\ keyAt(fcData, 0) = "t1"
    /\ ~dstStore["t1"].live
    /\ Len(skel.val.items) = 1
    /\ skel.val.items[1].dest = [key |-> "t1", name |-> "a"]

\* C23: for a RelationValue, or a list of them on a multiple bone,
\* unserialize of the entity serialize has just written gives the value
\* back: every entry's dest and rel, a rel of None and the empty list of a
\* multiple bone included.
C23_RoundTrip ==
    [][(pc = "serialized" /\ pc' = "serialized" /\ skel.val \in CodecValues)
          => skel'.val = skel.val]_vars

\* C27: serialize deletes every property whose name starts with the bone's
\* name and a dot, and leaves every other property as it was, the bone's
\* value and its outgoing lock list aside.
C27_SerializeFrame ==
    [][(pc = "loaded" /\ pc' = "serialized")
          => /\ \A k \in DOMAIN entity' : ~startsWith(k, boneName)
             /\ \A k \in (DOMAIN entity \cup DOMAIN entity')
                            \ {ownProperty, locksProperty} :
                   ~startsWith(k, boneName) =>
                       /\ k \in DOMAIN entity
                       /\ k \in DOMAIN entity'
                       /\ entity'[k] = entity[k]]_vars

\* The entity read from the datastore had properties of both sorts; after
\* serialize the one under the bone's name is gone, the other is there.
C27_Witness ==
    /\ pc = "serialized"
    /\ {<<boneName, "x">>, <<"bone2">>} \subseteq DOMAIN dbEntity
    /\ <<boneName, "x">> \notin DOMAIN entity
    /\ <<"bone2">> \in DOMAIN entity
    /\ ~Falsy(skel.val)

\* The save in progress writes the value the entity was last saved with.
SecondCall ==
    /\ pc = "serialize"
    /\ srcStore[cur].live
    /\ skel.val \in LockValues
    /\ srcStore[cur].val = serializedValue(skel.val)

\* C24: serialize called again on an entity whose bone value has not changed
\* writes the same structure and the same outgoing lock list as the call
\* before, changes no incoming lock list and fails no lock assertion.
C24_SerializeIdempotent ==
    [][SecondCall
          => /\ txnEntity.val = srcStore[cur].val
             /\ txnEntity.locks = srcStore[cur].locks
             /\ pc' \notin {"assert_missing", "assert_present", "assert_absent"}
             /\ \A k \in Dests : dstStore'[k].incoming = dstStore[k].incoming]_vars

\* An entity that holds a lock is saved again with the same value.
C24_Witness ==
    /\ SecondCall
    /\ srcStore[cur].locks # {}
    /\ toLock = {}
    /\ toUnlock = {}

\* C28: after every committed save the two lock lists agree in both
\* directions: a key is in the saved entity's outgoing lock list exactly
\* when the entity's identity is in the incoming lock list of the referenced
\* entity with that key.
C28_CommittedLocksAgree ==
    [][IsCommit => LocksAgree(srcStore', dstStore', cur)]_vars

\* Data of the failing save: the entity is not a holder of the key itself.
HeldByAnother(k) ==
    /\ entityName(cur) \in Range(dstStore[k].incoming)
    /\ k \notin oldRelationalLocks(cur)

\* C29: the save of an entity that takes a lock never fails on the identity
\* being in the list already because of another holder: with every entity to
\* lock in the store, the save of an entity of one kind goes through although
\* an entity of another kind with the same name holds a lock on the same
\* target.
C29_NoForeignAlreadyPresent ==
    [][(pc = "serialize" /\ \E k \in toLock : HeldByAnother(k))
          => pc' # "assert_present"]_vars

\* Field references a caller may filter or sort by: a field of the
\* referencing entity, a field behind the bone's name, and names that carry
\* the prefix src, dest or rel already; fields inside and outside refKeys and
\* parentKeys.
FieldRefs ==
    {<<"name">>, <<"key">>, <<"other">>,
     <<boneName, "name">>, <<boneName, "other">>,
     <<"src", "name">>, <<"dest", "name">>, <<"rel", "weight">>}

\* What each hook makes of one field reference.
filterHookOf(path) == filterHook(query, FilterName(path, ""), "v")
orderHookOf(path) == orderHookOne(path)

\* C26: on a multiple bone whose hooks are installed, filterHook and
\* orderHook treat every field reference alike: both raise, or both return
\* the same prefixed name.
C26_HooksAgree ==
    (query.hooks /\ cfg.multiple) =>
        \A path \in FieldRefs :
            /\ filterHookOf(path).res = "ok" <=> orderHookOf(path).res = "ok"
            /\ filterHookOf(path).res = "ok" =>
                  /\ ~filterHookOf(path).drop
                  /\ filterHookOf(path).name.path = orderHookOf(path).order

\* Every copy of a live referenced entity, in the value of a referencing
\* entity and in the rows of the index, has the entity's fields.
CopiesFresh ==
    /\ \A e \in Srcs :
          srcStore[e].live =>
              \A i \in 1..Len(srcStore[e].val.items) :
                  LET dest == srcStore[e].val.items[i].dest
                  IN dstStore[dest.key].live => dest.name = dstStore[dest.key].name
    /\ \A r \in rows :
          (ownRow(r) /\ dstStore[r.dest.key].live)
              => r.dest.name = dstStore[r.dest.key].name

\* A client's request changes a referenced entity or starts the save of a
\* referencing entity.
ClientChange == dstStore' # dstStore \/ (pc = "idle" /\ pc' = "serialize")

\* C25: when from some point on no referenced entity is saved and no
\* referencing entity is submitted again, the copies held by the referencing
\* entities and by their rows are in the end those of the live referenced
\* entities.
C25_CopiesEventuallyFresh ==
    (<>[][~ClientChange]_vars) => <>[]CopiesFresh

\* C30: two saves that run at the same time and lock the same referenced
\* entity lose no identity: every entity whose committed outgoing lock list
\* holds a key has its identity in the incoming lock list of that key.
C30_NoLostIdentity ==
    \A p \in Procs, k \in Dests :
        (srcStore[ProcEntity(p)].live /\ k \in srcStore[ProcEntity(p)].locks)
            => entityName(ProcEntity(p)) \in Range(dstStore[k].incoming)

\* Both requests have read the same referenced entity and hold their put of
\* its lock list, neither has committed.
C30_Witness ==
    /\ \A p \in Procs :
          /\ savers[p].pc = "serialize"
          /\ savers[p].reads["t1"] = <<>>
          /\ savers[p].puts["t1"] = <<entityName(ProcEntity(p))>>

====
